---- MODULE Spec2Model ----
(***************************************************************************)
(* The exam-PDF solver of dev2229/pdf_generator: the workflow controller   *)
(* of App.tsx (handleProcess, onFileSelected, reset and the form           *)
(* handlers), the retry wrapper and the three clients of                   *)
(* services/geminiService.ts over the actions of api/solver.ts, and the    *)
(* text extractor of services/pdfService.ts.                               *)
(*                                                                         *)
(* One step of the model is one event-loop turn of the program: a user     *)
(* event handler, or the continuation of an async function from the        *)
(* promise it awaited up to the next await.                                *)
(***************************************************************************)
EXTENDS Integers, Sequences, FiniteSets, TLC

VARIABLES
    hasKey,       \* App.tsx:21      useState<boolean>(true)
    keyChecked,   \* App.tsx:44-68   the mount effect checkKeyStatus has settled
    apiKey,       \* solver.ts:12    process.env.API_KEY is set
    context,      \* App.tsx:23      AcademicContext
    processing,   \* App.tsx:29      ProcessingState
    results,      \* App.tsx:35      QuestionItem[]
    downloadUrl,  \* App.tsx:36      string | null (NoUrl is null)
    liveUrls,     \* object URLs created and not yet revoked
    blocked,      \* the last file selection was refused (alert, focus on subject)
    pc,           \* the await handleProcess is suspended at
    closureUrl,   \* downloadUrl as captured by the running handleProcess
    rawText,      \* handleProcess: const rawText
    questions,    \* handleProcess: const questions
    solved,       \* handleProcess: let solved
    call,         \* the apiFetch frame of the extractQuestions/solveQuestions call
    diagrams,     \* per solved item, the frame of its diagram request
    caught,       \* handleProcess: the exception e of the catch block
    caughtAt,     \* the status the run had when its catch block ran
    script,       \* the action handed to a stand-alone apiFetch call
    doc           \* pdfService.ts:203 the jsPDF document and the locals of generateAnswerPdf

vars == << hasKey, keyChecked, apiKey, context, processing, results, downloadUrl,
           liveUrls, blocked, pc, closureUrl, rawText, questions, solved, call,
           diagrams, caught, caughtAt, script, doc >>

-----------------------------------------------------------------------------
(* Bounds of the model.                                                    *)

\* Longest question list the extraction endpoint returns.
MaxQuestions == 2
\* Fields of the catalog the user picks from, and entries per field.
MaxFields == 2
MaxSubFields == 2
\* Largest retry budget handed to a stand-alone apiFetch call.
MaxRetries == 3
\* Pages of a document handed to a stand-alone extractText, items per page.
MaxPages == 2
MaxItems == 2

\* Items of a list handed to a stand-alone generateAnswerPdf, and the wrapped
\* lines of one question and of one answer.
MaxPdfItems == 2
MaxQLines == 3
MaxALines == 41

-----------------------------------------------------------------------------
(* Text.  A string that the program inspects (trim, includes) is a         *)
(* sequence of one-character strings.                                      *)

Whitespace == {" ", "LF"}

RECURSIVE TrimStart(_)
TrimStart(s) ==
    IF s # <<>> /\ Head(s) \in Whitespace THEN TrimStart(Tail(s)) ELSE s

RECURSIVE TrimEnd(_)
TrimEnd(s) ==
    IF s # <<>> /\ s[Len(s)] \in Whitespace
    THEN TrimEnd(SubSeq(s, 1, Len(s) - 1))
    ELSE s

\* An emptiness test on the text as it is
Untrimmed(s) == s

\* String.prototype.trim
Trim(s) == TrimEnd(TrimStart(s))

RECURSIVE Join(_, _)
\* Array.prototype.join(sep) over strings
Join(strs, sep) ==
    IF strs = <<>> THEN <<>>
    ELSE IF Len(strs) = 1 THEN strs[1]
    ELSE strs[1] \o sep \o Join(Tail(strs), sep)

\* The characters of the messages the program tests with includes().
Chars ==
    ("API_KEY_MISSING: Environment variable process.env.API_KEY is not defined. Please select a key." :> <<"A","P","I","_","K","E","Y","_","M","I","S","S","I","N","G",":"," ","E","n","v","i","r","o","n","m","e","n","t"," ","v","a","r","i","a","b","l","e"," ","p","r","o","c","e","s","s",".","e","n","v",".","A","P","I","_","K","E","Y"," ","i","s"," ","n","o","t"," ","d","e","f","i","n","e","d","."," ","P","l","e","a","s","e"," ","s","e","l","e","c","t"," ","a"," ","k","e","y",".">>) @@
    ("No exam questions found. Ensure PDF is text-based (not a scan)." :> <<"N","o"," ","e","x","a","m"," ","q","u","e","s","t","i","o","n","s"," ","f","o","u","n","d","."," ","E","n","s","u","r","e"," ","P","D","F"," ","i","s"," ","t","e","x","t","-","b","a","s","e","d"," ","(","n","o","t"," ","a"," ","s","c","a","n",")",".">>) @@
    ("This PDF appears to be empty or contains only scanned images (no selectable text)." :> <<"T","h","i","s"," ","P","D","F"," ","a","p","p","e","a","r","s"," ","t","o"," ","b","e"," ","e","m","p","t","y"," ","o","r"," ","c","o","n","t","a","i","n","s"," ","o","n","l","y"," ","s","c","a","n","n","e","d"," ","i","m","a","g","e","s"," ","(","n","o"," ","s","e","l","e","c","t","a","b","l","e"," ","t","e","x","t",")",".">>) @@
    ("Failed to read PDF. It might be corrupted or protected." :> <<"F","a","i","l","e","d"," ","t","o"," ","r","e","a","d"," ","P","D","F","."," ","I","t"," ","m","i","g","h","t"," ","b","e"," ","c","o","r","r","u","p","t","e","d"," ","o","r"," ","p","r","o","t","e","c","t","e","d",".">>) @@
    ("PDF engine failed to load. Please check your internet connection." :> <<"P","D","F"," ","e","n","g","i","n","e"," ","f","a","i","l","e","d"," ","t","o"," ","l","o","a","d","."," ","P","l","e","a","s","e"," ","c","h","e","c","k"," ","y","o","u","r"," ","i","n","t","e","r","n","e","t"," ","c","o","n","n","e","c","t","i","o","n",".">>) @@
    ("An internal engine error occurred." :> <<"A","n"," ","i","n","t","e","r","n","a","l"," ","e","n","g","i","n","e"," ","e","r","r","o","r"," ","o","c","c","u","r","r","e","d",".">>) @@
    ("429 Too Many Requests" :> <<"4","2","9"," ","T","o","o"," ","M","a","n","y"," ","R","e","q","u","e","s","t","s">>) @@
    ("RESOURCE_EXHAUSTED" :> <<"R","E","S","O","U","R","C","E","_","E","X","H","A","U","S","T","E","D">>) @@
    ("401 Unauthorized" :> <<"4","0","1"," ","U","n","a","u","t","h","o","r","i","z","e","d">>) @@
    ("Network error" :> <<"N","e","t","w","o","r","k"," ","e","r","r","o","r">>) @@
    ("Invalid PDF structure." :> <<"I","n","v","a","l","i","d"," ","P","D","F"," ","s","t","r","u","c","t","u","r","e",".">>) @@
    ("jsPDF rendering fault" :> <<"j","s","P","D","F"," ","r","e","n","d","e","r","i","n","g"," ","f","a","u","l","t">>) @@
    ("" :> <<>>) @@
    ("429" :> <<"4","2","9">>) @@
    ("API Key not found" :> <<"A","P","I"," ","K","e","y"," ","n","o","t"," ","f","o","u","n","d">>) @@
    ("401" :> <<"4","0","1">>) @@
    ("auth" :> <<"a","u","t","h">>)

\* String.prototype.includes
Includes(msg, needle) ==
    LET m == Chars[msg]
        n == Chars[needle]
    IN  \E i \in 1..(Len(m) - Len(n) + 1) : SubSeq(m, i, i + Len(n) - 1) = n


\* No jsPDF document: generateAnswerPdf is not running
NoDoc == << >>

-----------------------------------------------------------------------------
(* The academic catalog and the form.                                      *)

FIELDS ==
    << "Engineering", "Commerce", "MBA / Management", "Arts & Humanities",
       "Natural Sciences", "Legal Studies" >>

ACADEMIC_STRUCTURE ==
    ("Engineering" :> << "Computer Science & IT", "Mechanical Engineering",
                         "Electrical & Electronics", "Civil Engineering",
                         "Chemical Engineering", "Aerospace Engineering" >>) @@
    ("Commerce" :> << "Accounting & Finance", "Business Management", "Economics",
                      "Marketing", "International Trade" >>) @@
    ("MBA / Management" :> << "Strategic Management", "Corporate Finance",
                              "Operations Management", "Human Resources",
                              "Organizational Behavior" >>) @@
    ("Arts & Humanities" :> << "Modern History", "Political Science", "Sociology",
                               "Clinical Psychology", "English Literature" >>) @@
    ("Natural Sciences" :> << "Theoretical Physics", "Organic Chemistry",
                              "Molecular Biology", "Applied Mathematics",
                              "Environmental Science" >>) @@
    ("Legal Studies" :> << "Criminal Jurisprudence", "Constitutional Law",
                           "Corporate Governance", "International Law" >>)

Min(a, b) == IF a < b THEN a ELSE b

\* The options of the field <select> the user picks from.
FieldChoices == { FIELDS[i] : i \in 1..Min(MaxFields, Len(FIELDS)) }

\* The options of the specialization <select> for a field.
SubFieldChoices(f) ==
    { ACADEMIC_STRUCTURE[f][i] : i \in 1..Min(MaxSubFields, Len(ACADEMIC_STRUCTURE[f])) }

\* What the user types into the subject input: nothing, blanks only, a name.
Subjects == { <<>>, <<" ", " ">>, <<" ", "P", "h", "y", "s", "i", "c", "s">> }

InitContext ==
    [ field    |-> FIELDS[1],
      subField |-> ACADEMIC_STRUCTURE[FIELDS[1]][1],
      subject  |-> <<>> ]

-----------------------------------------------------------------------------
(* ProcessingState.                                                        *)

InFlight ==
    { "EXTRACTING", "ANALYZING", "GENERATING", "GENERATING_DIAGRAMS", "CREATING_PDF" }

ProcessStatus == {"IDLE", "CONFIGURING", "UPLOADING", "COMPLETED", "ERROR"} \cup InFlight

Idle       == [ status |-> "IDLE", progress |-> 0, message |-> "System Ready" ]
Extracting == [ status |-> "EXTRACTING", progress |-> 10,
                message |-> "Processing Document..." ]
Analyzing  == [ status |-> "ANALYZING", progress |-> 25,
                message |-> "Parsing Exam Structure..." ]
Generating == [ status |-> "GENERATING", progress |-> 50,
                message |-> "Generating Solutions..." ]
\* A diagram stage whose percentage falls behind the solving stage
DiagramsAt40 ==
              [ status |-> "GENERATING_DIAGRAMS", progress |-> 40,
                message |-> "Rendering Technical Visuals..." ]
GeneratingDiagrams ==
              [ status |-> "GENERATING_DIAGRAMS", progress |-> 75,
                message |-> "Rendering Technical Visuals..." ]
CreatingPdf == [ status |-> "CREATING_PDF", progress |-> 95,
                 message |-> "Compiling Final PDF..." ]
Completed  == [ status |-> "COMPLETED", progress |-> 100, message |-> "Solutions Ready" ]

-----------------------------------------------------------------------------
(* Errors.  An exception is its message; NoError is "nothing thrown".      *)

NoError == "(none)"

MsgApiKeyMissing ==
    "API_KEY_MISSING: Environment variable process.env.API_KEY is not defined. Please select a key."
MsgNoQuestions == "No exam questions found. Ensure PDF is text-based (not a scan)."
MsgEmptyPdf ==
    "This PDF appears to be empty or contains only scanned images (no selectable text)."
MsgReadFailed == "Failed to read PDF. It might be corrupted or protected."
MsgLibFailed == "PDF engine failed to load. Please check your internet connection."
MsgInternal == "An internal engine error occurred."

\* What ai.models.generateContent rejects with: quota (two signatures),
\* a rejected credential, the network, an Error that carries no message.
RemoteErrors ==
    { "429 Too Many Requests", "RESOURCE_EXHAUSTED", "401 Unauthorized", "Network error", "" }

\* What the image endpoint rejects with.
DiagramErrors == { "429 Too Many Requests", "Network error" }

\* What pdf.js rejects with while reading a document.
PdfReadFaults == { "Invalid PDF structure.", "" }

\* What jsPDF throws while the document is assembled.
PdfWriteFaults == { "jsPDF rendering fault", "" }

\* e.message || fallback
OrElse(msg, fallback) == IF msg = "" THEN fallback ELSE msg

\* A wrapper that takes every error for a quota error
AnyError(msg) == TRUE

\* geminiService.ts:16 isQuotaError
IsQuotaError(msg) == Includes(msg, "429") \/ Includes(msg, "RESOURCE_EXHAUSTED")

IsAuthError(msg) ==
    Includes(msg, "API Key not found") \/ Includes(msg, "401") \/ Includes(msg, "auth")

-----------------------------------------------------------------------------
(* QuestionItem.  number k and question k stand for the numbering and the  *)
(* text of the k-th question of the document; an absent optional field is  *)
(* Undefined.                                                              *)

Undefined == "undefined"

Item(k) ==
    [ number |-> k, question |-> k, answer |-> Undefined,
      diagramPrompt |-> Undefined, diagramDataUrl |-> Undefined,
      referenceDocUrl |-> Undefined, referenceVideoUrl |-> Undefined ]

\* An item as the solution endpoint answers it, with or without a diagramPrompt.
Answered(q, prompt) ==
    [ q EXCEPT !.answer = "Step 1: ...", !.diagramPrompt = prompt,
               !.referenceDocUrl = "https://example.org/article",
               !.referenceVideoUrl = "https://youtube.com/watch" ]

\* No diagramPrompt, an empty one, a description
DiagramPrompts == { Undefined, "", "a free-body diagram" }

\* if (q.diagramPrompt): neither absent nor the empty string
Truthy(v) == v \notin { Undefined, "" }

DataUrl == "data:image/png;base64,AAAA"

-----------------------------------------------------------------------------
(* The remote endpoints.  A response is its text and the value JSON.parse  *)
(* makes of that text: text "" is an empty response, "not json" a payload  *)
(* that fails to parse.                                                    *)

EmptyResponse == [ text |-> "", json |-> <<>> ]
MalformedResponse == [ text |-> "not json", json |-> <<>> ]
JsonResponse(v) == [ text |-> "json", json |-> v ]

\* The question endpoint finds the first n questions of the document.
ExtractionResponses ==
    { EmptyResponse, MalformedResponse }
    \cup { JsonResponse([k \in 1..n |-> Item(k)]) : n \in 0..MaxQuestions }

\* The solution endpoint answers the first m of the questions it was sent,
\* each with or without a diagramPrompt, or rewords the first question.
SolutionResponses(qs) ==
    { EmptyResponse, MalformedResponse }
    \cup { JsonResponse([k \in 1..m |-> Answered(qs[k], p[k])]) :
             m \in 0..Len(qs), p \in [1..Len(qs) -> DiagramPrompts] }
    \cup { JsonResponse([k \in 1..Len(qs) |->
             Answered([qs[k] EXCEPT !.question = IF k = 1 THEN 0 ELSE @], Undefined)]) }

\* An extraction that makes an item of a payload it cannot parse
ExtractOrPlaceholder(resp) ==
    IF resp.text = "not json" THEN << Item(0) >> ELSE resp.json

\* solver.ts extractQuestionsAction, from the response on
ExtractQuestionsResult(resp) ==
    IF resp.text = "" THEN <<>>
    ELSE IF resp.text = "not json" THEN <<>>
    ELSE resp.json

\* solver.ts solveQuestionsAction, from the response on
SolveQuestionsResult(qs, resp) ==
    IF resp.text = ""
    THEN [k \in 1..Len(qs) |-> [qs[k] EXCEPT !.answer = "AI generation failed."]]
    ELSE IF resp.text = "not json"
    THEN [k \in 1..Len(qs) |-> [qs[k] EXCEPT !.answer = "Error formatting the response."]]
    ELSE resp.json

-----------------------------------------------------------------------------
(* The text extractor.  A document is its pages, a page the strings of its *)
(* text items.                                                             *)

\* A scanned page, a page of blanks, a page with a question, two pages.
Files ==
    { << <<>> >>,
      << << <<" ">>, <<" ">> >> >>,
      << << <<"1", ".">>, <<"W", "h", "y", "?">> >> >>,
      << << <<"1">> >>, <<>>, << <<"2">> >> >> }

RECURSIVE FullText(_)
\* pdfService.ts extractText: fullText += pageText + "\n" for every page
FullText(pages) ==
    IF pages = <<>> THEN <<>>
    ELSE Join(Head(pages), <<" ">>) \o <<"LF">> \o FullText(Tail(pages))

\* An extractText that returns whatever text it read
ExtractUnchecked(libLoaded, fault, pages) ==
    IF ~libLoaded THEN [ error |-> MsgLibFailed, text |-> <<>> ]
    ELSE IF fault # NoError
    THEN [ error |-> OrElse(fault, MsgReadFailed), text |-> <<>> ]
    ELSE [ error |-> NoError, text |-> FullText(pages) ]

\* pdfService.ts extractText: the exception it throws (NoError if none) and
\* the text it returns.  libLoaded: window.pdfjsLib appears within 5 s;
\* fault: what pdf.js rejects with while reading (NoError if nothing).
ExtractText(libLoaded, fault, pages) ==
    IF ~libLoaded THEN [ error |-> MsgLibFailed, text |-> <<>> ]
    ELSE IF fault # NoError
    THEN [ error |-> OrElse(fault, MsgReadFailed), text |-> <<>> ]
    ELSE IF Trim(FullText(pages)) = <<>>
    THEN [ error |-> OrElse(MsgEmptyPdf, MsgReadFailed), text |-> <<>> ]
    ELSE [ error |-> NoError, text |-> FullText(pages) ]

-----------------------------------------------------------------------------
(* The retry wrapper, geminiService.ts apiFetch.  A frame is one call of   *)
(* apiFetch with its recursive retries: the budget left, the next delay,   *)
(* how often the action was invoked, the waits performed, and how the call *)
(* ended.                                                                  *)

DefaultRetries == 2
DefaultDelay == 2000

NoFrame ==
    [ op |-> "none", phase |-> "none", retries |-> 0, delay |-> 0, calls |-> 0,
      waits |-> <<>>, error |-> NoError, value |-> Undefined ]

\* solver.ts getAI: an action invoked without a key rejects before it sends.
Invoke(keyPresent) == IF keyPresent THEN "call" ELSE "nokey"

\* apiFetch(action, retries, delay) up to its await of action()
ApiFetch(op, keyPresent, retries, delay) ==
    [ op |-> op, phase |-> Invoke(keyPresent), retries |-> retries, delay |-> delay,
      calls |-> 1, waits |-> <<>>, error |-> NoError, value |-> Undefined ]

\* action() resolved: return await action()
OnResolve(f, v) == [ f EXCEPT !.phase = "returned", !.value = v ]

\* A catch block that forgets the budget
RetriesUnbounded(f, e) == IsQuotaError(e)

\* Whether the catch block of apiFetch retries after error e
Retries(f, e) == IsQuotaError(e) /\ f.retries > 0

\* action() rejected with e: wait for the delay, or rethrow
OnReject(f, e) ==
    IF Retries(f, e)
    THEN [ f EXCEPT !.phase = "backoff", !.waits = Append(@, f.delay), !.error = e ]
    ELSE [ f EXCEPT !.phase = "thrown", !.error = e ]

\* A retry that waits the same delay again
SameDelay(f, keyPresent) ==
    [ f EXCEPT !.phase = Invoke(keyPresent), !.retries = @ - 1,
               !.calls = @ + 1, !.error = NoError ]

\* the timer fired: return this.apiFetch(action, retries - 1, delay * 2)
OnTimer(f, keyPresent) ==
    [ f EXCEPT !.phase = Invoke(keyPresent), !.retries = @ - 1, !.delay = @ * 2,
               !.calls = @ + 1, !.error = NoError ]

\* A Promise.all that waits only for the requests that are backing off
NotBackingOff(f) == f.phase # "backoff"

\* A Promise.all that does not wait
NotAwaited(f) == TRUE

\* A Promise.all that waits for an image from every request
ImageArrived(f) == f.phase = "none" \/ (f.phase = "returned" /\ f.value # Undefined)

\* Whether the promise of frame f has settled
Settled(f) == f.phase \in { "none", "returned", "thrown" }

-----------------------------------------------------------------------------
(* Object URLs.                                                            *)

NoUrl == 0

\* A createObjectURL that yields no URL
NullUrl(live, held) == NoUrl

\* URL.createObjectURL: a URL that is neither live nor still referenced
CreateObjectURL(live, held) ==
    CHOOSE u \in 1..(Cardinality(live \cup held) + 1) : u \notin (live \cup held)

\* A release that revokes nothing
NoRevoke(live, url) == live

\* if (url) URL.revokeObjectURL(url)
RevokeObjectURL(live, url) == IF url # NoUrl THEN live \ {url} ELSE live

-----------------------------------------------------------------------------
(* The initial state: App mounted, its mount effect run up to its await.  *)

\* checkKeyStatus decides at once when the environment holds a key
Init ==
    /\ apiKey \in BOOLEAN
    /\ hasKey = TRUE
    /\ keyChecked = apiKey
    /\ context = InitContext
    /\ processing = Idle
    /\ results = <<>>
    /\ downloadUrl = NoUrl
    /\ liveUrls = {}
    /\ blocked = FALSE
    /\ pc = "none"
    /\ closureUrl = NoUrl
    /\ rawText = <<>>
    /\ questions = <<>>
    /\ solved = <<>>
    /\ call = NoFrame
    /\ diagrams = <<>>
    /\ caught = NoError
    /\ caughtAt = "IDLE"
    /\ script = <<>>
    /\ doc = NoDoc

\* the variables of one handleProcess activation
runLocals == << closureUrl, rawText, questions, solved, call, diagrams >>

-----------------------------------------------------------------------------
(* The credential gate.                                                    *)

\* App.tsx useEffect checkKeyStatus resumes from await hasSelectedApiKey()
CheckKeyStatus ==
    /\ ~keyChecked
    /\ keyChecked' = TRUE
    /\ hasKey' \in BOOLEAN
    /\ UNCHANGED << apiKey, context, processing, results, downloadUrl, liveUrls,
                    blocked, pc, runLocals, caught, caughtAt, script, doc >>

\* App.tsx handleSelectKey, the button of the auth screen: when the dialog
\* succeeds hasKey is set and the environment may now hold a key
HandleSelectKey ==
    /\ ~hasKey
    /\ hasKey' = TRUE
    /\ apiKey' \in {apiKey, TRUE}
    /\ UNCHANGED << keyChecked, context, processing, results, downloadUrl, liveUrls,
                    blocked, pc, runLocals, caught, caughtAt, script, doc >>

-----------------------------------------------------------------------------
(* The form of the IDLE view.                                              *)

\* A form rendered in every view of the authorised app
FormAlways == hasKey

\* App.tsx:168,211 the upload form is rendered with a key, in the IDLE view
FormShown == hasKey /\ processing.status = "IDLE"

\* A field handler that keeps the specialization of the old field
FieldOnly(newField) ==
    /\ FormShown
    /\ context' = [ context EXCEPT !.field = newField ]
    /\ UNCHANGED << hasKey, keyChecked, apiKey, processing, results, downloadUrl,
                    liveUrls, blocked, pc, runLocals, caught, caughtAt, script, doc >>

\* App.tsx handleFieldChange
HandleFieldChange(newField) ==
    /\ FormShown
    /\ context' = [ context EXCEPT !.field = newField,
                                   !.subField = ACADEMIC_STRUCTURE[newField][1] ]
    /\ UNCHANGED << hasKey, keyChecked, apiKey, processing, results, downloadUrl,
                    liveUrls, blocked, pc, runLocals, caught, caughtAt, script, doc >>

\* App.tsx:255 the specialization <select>
SetSubField(sf) ==
    /\ FormShown
    /\ context' = [ context EXCEPT !.subField = sf ]
    /\ UNCHANGED << hasKey, keyChecked, apiKey, processing, results, downloadUrl,
                    liveUrls, blocked, pc, runLocals, caught, caughtAt, script, doc >>

\* App.tsx:272 the subject <input>
SetSubject(s) ==
    /\ FormShown
    /\ context' = [ context EXCEPT !.subject = s ]
    /\ UNCHANGED << hasKey, keyChecked, apiKey, processing, results, downloadUrl,
                    liveUrls, blocked, pc, runLocals, caught, caughtAt, script, doc >>

-----------------------------------------------------------------------------
(* handleProcess.                                                          *)

\* A gate that tests the subject without trimming it
NonEmpty(subject) == subject # <<>>

\* onFileSelected: whether the subject lets the upload through
SubjectGiven(subject) == Trim(subject) # <<>>

\* App.tsx onFileSelected with a file chosen: refused with an alert while the
\* subject is blank, else handleProcess starts and runs to its first await.
OnFileSelected ==
    /\ FormShown
    /\ IF ~SubjectGiven(context.subject)
       THEN /\ blocked' = TRUE
            /\ UNCHANGED << processing, pc, runLocals >>
       ELSE /\ blocked' = FALSE
            /\ processing' = Extracting
            /\ pc' = "extractText"
            /\ closureUrl' = downloadUrl
            /\ UNCHANGED << rawText, questions, solved, call, diagrams >>
    /\ UNCHANGED << hasKey, keyChecked, apiKey, context, results, downloadUrl,
                    liveUrls, caught, caughtAt, script, doc >>

\* A catch block without the fallback message
Verbatim(e) == e

\* The message the catch block of handleProcess shows for exception e
ErrorMessage(e) == OrElse(e, MsgInternal)

\* handleProcess has returned: its locals are gone
Return ==
    /\ pc' = "none"
    /\ closureUrl' = NoUrl
    /\ rawText' = <<>>
    /\ questions' = <<>>
    /\ solved' = <<>>
    /\ call' = NoFrame
    /\ diagrams' = <<>>

\* The catch block of handleProcess: exception e ends the run in ERROR
Catch(e) ==
    /\ caught' = e
    /\ caughtAt' = processing.status
    /\ hasKey' = IF IsAuthError(e) THEN FALSE ELSE hasKey
    /\ processing' = [ status |-> "ERROR", progress |-> 0, message |-> ErrorMessage(e) ]
    /\ Return

\* handleProcess resumes from await pdfProcessor.extractText(file)
ExtractTextSettles ==
    /\ pc = "extractText"
    /\ \E libLoaded \in BOOLEAN, fault \in PdfReadFaults \cup {NoError}, pages \in Files :
         LET r == ExtractText(libLoaded, fault, pages)
         IN  IF r.error # NoError
             THEN Catch(r.error)
             ELSE /\ rawText' = r.text
                  /\ processing' = Analyzing
                  /\ call' = ApiFetch("extractQuestions", apiKey, DefaultRetries, DefaultDelay)
                  /\ pc' = "apiFetch"
                  /\ UNCHANGED << hasKey, caught, caughtAt, closureUrl, questions,
                                  solved, diagrams >>
    /\ UNCHANGED << keyChecked, apiKey, context, results, downloadUrl, liveUrls,
                    blocked, script, doc >>

\* What an invoked action may reject with
Rejections(f, errors) == IF f.phase = "nokey" THEN {MsgApiKeyMissing} ELSE errors

\* apiFetch resumes from a rejected await action(): it waits, or the error
\* reaches handleProcess (both remote calls that handleProcess awaits)
CallRejects ==
    /\ pc = "apiFetch"
    /\ call.phase \in {"call", "nokey"}
    /\ \E e \in Rejections(call, RemoteErrors) :
         IF OnReject(call, e).phase = "thrown"
         THEN Catch(e)
         ELSE /\ call' = OnReject(call, e)
              /\ UNCHANGED << hasKey, processing, pc, caught, caughtAt, closureUrl,
                              rawText, questions, solved, diagrams >>
    /\ UNCHANGED << keyChecked, apiKey, context, results, downloadUrl, liveUrls,
                    blocked, script, doc >>

\* apiFetch resumes from its backoff timer and invokes the action again
CallTimerFires ==
    /\ pc = "apiFetch"
    /\ call.phase = "backoff"
    /\ call' = OnTimer(call, apiKey)
    /\ UNCHANGED << hasKey, keyChecked, apiKey, context, processing, results,
                    downloadUrl, liveUrls, blocked, pc, closureUrl, rawText,
                    questions, solved, diagrams, caught, caughtAt, script, doc >>

\* A step-over of the emptiness check of handleProcess
NeverEmpty(qs) == FALSE

\* handleProcess:100 !questions || questions.length === 0
NoQuestions(qs) == Len(qs) = 0

\* handleProcess resumes from await gemini.extractQuestions(rawText)
ExtractQuestionsSettles ==
    /\ pc = "apiFetch"
    /\ call.op = "extractQuestions"
    /\ call.phase = "call"
    /\ \E resp \in ExtractionResponses :
         LET qs == ExtractQuestionsResult(resp)
         IN  IF NoQuestions(qs)
             THEN Catch(MsgNoQuestions)
             ELSE /\ questions' = qs
                  /\ rawText' = <<>>
                  /\ processing' = Generating
                  /\ call' = ApiFetch("solveQuestions", apiKey, DefaultRetries, DefaultDelay)
                  /\ UNCHANGED << hasKey, pc, caught, caughtAt, closureUrl, solved,
                                  diagrams >>
    /\ UNCHANGED << keyChecked, apiKey, context, results, downloadUrl, liveUrls,
                    blocked, script, doc >>

\* A callback that asks for a diagram whatever the item
RequestAlways(q, keyPresent) ==
    ApiFetch("generateDiagram", keyPresent, DefaultRetries, DefaultDelay)

\* handleProcess:108-119 the request the callback starts for solved item q
DiagramRequest(q, keyPresent) ==
    IF Truthy(q.diagramPrompt)
    THEN ApiFetch("generateDiagram", keyPresent, DefaultRetries, DefaultDelay)
    ELSE NoFrame

\* handleProcess resumes from await gemini.solveQuestions(questions, context)
\* and starts the diagram requests
SolveQuestionsSettles ==
    /\ pc = "apiFetch"
    /\ call.op = "solveQuestions"
    /\ call.phase = "call"
    /\ \E resp \in SolutionResponses(questions) :
         LET s == SolveQuestionsResult(questions, resp)
         IN  /\ solved' = s
             /\ diagrams' = [ i \in 1..Len(s) |-> DiagramRequest(s[i], apiKey) ]
    /\ call' = NoFrame
    /\ processing' = GeneratingDiagrams
    /\ pc' = "diagrams"
    /\ UNCHANGED << hasKey, keyChecked, apiKey, context, results, downloadUrl,
                    liveUrls, blocked, closureUrl, rawText, questions, caught,
                    caughtAt, script, doc >>

\* A client without its catch: the settled apiFetch as it is
Rethrown(f) == f

\* geminiService.ts generateTechnicalDiagram: the value of a settled apiFetch,
\* or undefined for an error, which is logged
GenerateTechnicalDiagram(f) ==
    [ NoFrame EXCEPT !.op = f.op, !.phase = "returned",
                     !.value = IF f.phase = "thrown" THEN Undefined ELSE f.value,
                     !.error = IF f.phase = "thrown" THEN f.error ELSE NoError ]

\* handleProcess:109-118 the try/catch of the map callback around the request:
\* a rejection is logged and the item returned as it is
MapCallback(f) == IF f.phase = "thrown" THEN [ f EXCEPT !.phase = "returned" ] ELSE f

\* A diagram request whose failure nothing catches
Unhandled(f) == f

\* What the promise of one map callback settles to once its apiFetch has
DiagramSettled(f) == MapCallback(GenerateTechnicalDiagram(f))

\* The request after its action settled: still backing off, or settled
DiagramOutcome(f) == IF Settled(f) THEN DiagramSettled(f) ELSE f

\* What the action of request f may settle to
ActionOutcomes(f) ==
    { OnReject(f, e) : e \in Rejections(f, DiagramErrors) }
      \cup (IF f.phase = "call" THEN { OnResolve(f, v) : v \in {DataUrl, Undefined} } ELSE {})

\* The action of item i's diagram request settles; a rejected callback
\* promise rejects Promise.all and handleProcess resumes in its catch block
DiagramSettles(i) ==
    /\ pc = "diagrams"
    /\ diagrams[i].phase \in {"call", "nokey"}
    /\ \E f \in ActionOutcomes(diagrams[i]) :
         IF DiagramOutcome(f).phase = "thrown"
         THEN Catch(f.error)
         ELSE /\ diagrams' = [ diagrams EXCEPT ![i] = DiagramOutcome(f) ]
              /\ UNCHANGED << hasKey, processing, pc, closureUrl, rawText, questions,
                              solved, call, caught, caughtAt >>
    /\ UNCHANGED << keyChecked, apiKey, context, results, downloadUrl, liveUrls,
                    blocked, script, doc >>

\* The backoff timer of item i's diagram request fires
DiagramTimerFires(i) ==
    /\ pc = "diagrams"
    /\ diagrams[i].phase = "backoff"
    /\ diagrams' = [ diagrams EXCEPT ![i] = OnTimer(@, apiKey) ]
    /\ UNCHANGED << hasKey, keyChecked, apiKey, context, processing, results,
                    downloadUrl, liveUrls, blocked, pc, closureUrl, rawText,
                    questions, solved, call, caught, caughtAt, script, doc >>

\* handleProcess:108-119 the item the callback of solved.map returns
WithDiagram(q, f) ==
    IF Truthy(q.diagramPrompt) THEN [ q EXCEPT !.diagramDataUrl = f.value ] ELSE q

\* A merge that lists the items last first
LastFirst(s, d) ==
    [ i \in 1..Len(s) |-> WithDiagram(s[Len(s) + 1 - i], d[Len(s) + 1 - i]) ]

\* handleProcess:107-119 what Promise.all(solved.map(...)) resolves to: the
\* value of the i-th callback at index i
SolvedWithDiagrams(s, d) == [ i \in 1..Len(s) |-> WithDiagram(s[i], d[i]) ]

\* A call that hands generateAnswerPdf an empty list
AssemblingNone(list) == [ questions |-> << >> ]

\* handleProcess:124 generateAnswerPdf(solvedWithDiagrams) called: the document
\* assembled from the list, which the blob holds when the promise resolves
Assembling(list) == [ questions |-> list ]

\* handleProcess resumes from await Promise.all(...)
DiagramsSettle ==
    /\ pc = "diagrams"
    /\ \A i \in 1..Len(diagrams) : Settled(diagrams[i])
    /\ results' = SolvedWithDiagrams(solved, diagrams)
    /\ processing' = CreatingPdf
    /\ doc' = Assembling(SolvedWithDiagrams(solved, diagrams))
    /\ pc' = "generateAnswerPdf"
    /\ UNCHANGED << hasKey, keyChecked, apiKey, context, downloadUrl, liveUrls,
                    blocked, runLocals, caught, caughtAt, script >>

\* handleProcess resumes from await pdfProcessor.generateAnswerPdf(...)
GenerateAnswerPdfSettles ==
    /\ pc = "generateAnswerPdf"
    /\ \E fault \in PdfWriteFaults \cup {NoError} :
         IF fault # NoError
         THEN /\ Catch(fault)
              /\ doc' = NoDoc
              /\ UNCHANGED << downloadUrl, liveUrls >>
         ELSE LET live == RevokeObjectURL(liveUrls, closureUrl)
                  newUrl == CreateObjectURL(live, {downloadUrl, closureUrl})
              IN  /\ liveUrls' = live \cup {newUrl}
                  /\ downloadUrl' = newUrl
                  /\ processing' = Completed
                  /\ Return
                  /\ UNCHANGED << hasKey, caught, caughtAt, doc >>
    /\ UNCHANGED << keyChecked, apiKey, context, results, blocked, script >>

\* A reset offered in every view
ResetAnytime ==
    /\ hasKey
    /\ processing' = Idle
    /\ results' = <<>>
    /\ liveUrls' = RevokeObjectURL(liveUrls, downloadUrl)
    /\ downloadUrl' = NoUrl
    /\ caught' = NoError
    /\ caughtAt' = "IDLE"
    /\ UNCHANGED << hasKey, keyChecked, apiKey, context, blocked, pc, runLocals, script, doc >>

\* A reset that sets the status and nothing else
ResetStatusOnly ==
    /\ hasKey
    /\ \/ processing.status = "ERROR"
       \/ processing.status = "COMPLETED" /\ downloadUrl # NoUrl
    /\ processing' = Idle
    /\ caught' = NoError
    /\ caughtAt' = "IDLE"
    /\ UNCHANGED << hasKey, keyChecked, apiKey, context, results, downloadUrl, liveUrls,
                    blocked, pc, runLocals, script, doc >>

\* App.tsx reset, the button of the ERROR panel and of the COMPLETED view
Reset ==
    /\ hasKey
    /\ \/ processing.status = "ERROR"
       \/ processing.status = "COMPLETED" /\ downloadUrl # NoUrl
    /\ processing' = Idle
    /\ results' = <<>>
    /\ liveUrls' = RevokeObjectURL(liveUrls, downloadUrl)
    /\ downloadUrl' = NoUrl
    /\ caught' = NoError
    /\ caughtAt' = "IDLE"
    /\ doc' = NoDoc
    /\ UNCHANGED << hasKey, keyChecked, apiKey, context, blocked, pc, runLocals, script >>

Next ==
    \/ CheckKeyStatus
    \/ HandleSelectKey
    \/ \E f \in FieldChoices : HandleFieldChange(f)
    \/ \E sf \in SubFieldChoices(context.field) : SetSubField(sf)
    \/ \E s \in Subjects : SetSubject(s)
    \/ OnFileSelected
    \/ ExtractTextSettles
    \/ CallRejects
    \/ CallTimerFires
    \/ ExtractQuestionsSettles
    \/ SolveQuestionsSettles
    \/ \E i \in 1..Len(diagrams) : DiagramSettles(i)
    \/ \E i \in 1..Len(diagrams) : DiagramTimerFires(i)
    \/ DiagramsSettle
    \/ GenerateAnswerPdfSettles
    \/ Reset

Spec == Init /\ [][Next]_vars

-----------------------------------------------------------------------------
(* The pipeline under fair scheduling: every awaited promise settles and   *)
(* every timer fires.                                                      *)

Fairness ==
    /\ WF_vars(ExtractTextSettles)
    /\ WF_vars(CallRejects \/ ExtractQuestionsSettles \/ SolveQuestionsSettles)
    /\ WF_vars(CallTimerFires)
    /\ WF_vars(\E i \in 1..Len(diagrams) : DiagramSettles(i))
    /\ WF_vars(\E i \in 1..Len(diagrams) : DiagramTimerFires(i))
    /\ WF_vars(DiagramsSettle)
    /\ WF_vars(GenerateAnswerPdfSettles)

FairSpec == Spec /\ Fairness

-----------------------------------------------------------------------------
(* The retry wrapper on its own: apiFetch(action, retries) for an action   *)
(* whose successive invocations settle as a script says.                   *)

Resolves == "(resolves)"

\* How one invocation of the action may settle
ActionResults ==
    { Resolves, "429 Too Many Requests", "RESOURCE_EXHAUSTED", "Network error", "" }

Scripts ==
    [ retries : 0..MaxRetries, outcomes : [ 1..(MaxRetries + 1) -> ActionResults ] ]

InitRetry ==
    /\ script \in Scripts
    /\ doc = NoDoc
    /\ call = ApiFetch("action", TRUE, script.retries, DefaultDelay)
    /\ apiKey = TRUE
    /\ hasKey = TRUE
    /\ keyChecked = TRUE
    /\ context = InitContext
    /\ processing = Idle
    /\ results = <<>>
    /\ downloadUrl = NoUrl
    /\ liveUrls = {}
    /\ blocked = FALSE
    /\ pc = "none"
    /\ closureUrl = NoUrl
    /\ rawText = <<>>
    /\ questions = <<>>
    /\ solved = <<>>
    /\ diagrams = <<>>
    /\ caught = NoError
    /\ caughtAt = "IDLE"

appState ==
    << hasKey, keyChecked, apiKey, context, processing, results, downloadUrl, liveUrls,
       blocked, pc, closureUrl, rawText, questions, solved, diagrams, caught, caughtAt >>

\* apiFetch resumes from await action()
RetryActionSettles ==
    /\ call.op = "action"
    /\ call.phase = "call"
    /\ call.calls \in DOMAIN script.outcomes
    /\ LET o == script.outcomes[call.calls]
       IN  call' = IF o = Resolves THEN OnResolve(call, DataUrl) ELSE OnReject(call, o)
    /\ UNCHANGED << appState, script, doc >>

\* apiFetch resumes from its backoff timer
RetryTimerFires ==
    /\ call.op = "action"
    /\ call.phase = "backoff"
    /\ call' = OnTimer(call, TRUE)
    /\ UNCHANGED << appState, script, doc >>

NextRetry == RetryActionSettles \/ RetryTimerFires

SpecRetry == InitRetry /\ [][NextRetry]_vars

-----------------------------------------------------------------------------
(* The diagram client on its own: generateTechnicalDiagram(prompt) with or *)
(* without a key in the environment, for an endpoint whose successive      *)
(* invocations settle as a script says.                                    *)

\* How one invocation of generateDiagramAction may settle: with an image,
\* with a response that has no inline image, or with an error
DiagramResults == { DataUrl, Undefined } \cup DiagramErrors \cup { "" }

DiagramScripts ==
    [ retries : {DefaultRetries},
      outcomes : [ 1..(DefaultRetries + 1) -> DiagramResults ] ]

InitDiagram ==
    /\ script \in DiagramScripts
    /\ doc = NoDoc
    /\ apiKey \in BOOLEAN
    /\ call = ApiFetch("generateDiagram", apiKey, DefaultRetries, DefaultDelay)
    /\ pc = "client"
    /\ diagrams = <<>>
    /\ hasKey = TRUE
    /\ keyChecked = TRUE
    /\ context = InitContext
    /\ processing = Idle
    /\ results = <<>>
    /\ downloadUrl = NoUrl
    /\ liveUrls = {}
    /\ blocked = FALSE
    /\ closureUrl = NoUrl
    /\ rawText = <<>>
    /\ questions = <<>>
    /\ solved = <<>>
    /\ caught = NoError
    /\ caughtAt = "IDLE"

clientRest ==
    << hasKey, keyChecked, apiKey, context, processing, results, downloadUrl, liveUrls,
       blocked, closureUrl, rawText, questions, solved, caught, caughtAt, script, doc >>

\* apiFetch resumes from await generateDiagramAction(prompt)
ClientActionSettles ==
    /\ pc = "client"
    /\ call.phase \in {"call", "nokey"}
    /\ LET o == script.outcomes[call.calls]
       IN  call' = IF call.phase = "nokey" THEN OnReject(call, MsgApiKeyMissing)
                   ELSE IF o \in {DataUrl, Undefined} THEN OnResolve(call, o)
                   ELSE OnReject(call, o)
    /\ UNCHANGED << clientRest, pc, diagrams >>

\* apiFetch resumes from its backoff timer
ClientTimerFires ==
    /\ pc = "client"
    /\ call.phase = "backoff"
    /\ call' = OnTimer(call, apiKey)
    /\ UNCHANGED << clientRest, pc, diagrams >>

\* generateTechnicalDiagram resumes from its await of apiFetch and settles
\* the promise it gave its caller
ClientSettles ==
    /\ pc = "client"
    /\ Settled(call)
    /\ diagrams' = << GenerateTechnicalDiagram(call) >>
    /\ pc' = "settled"
    /\ UNCHANGED << clientRest, call >>

NextDiagram == ClientActionSettles \/ ClientTimerFires \/ ClientSettles

SpecDiagram == InitDiagram /\ [][NextDiagram]_vars

-----------------------------------------------------------------------------
(* The extraction stage on its own: handleProcess from its await of        *)
(* gemini.extractQuestions(rawText) to the next one, with or without a key *)
(* in the environment, for an endpoint whose successive invocations settle *)
(* as a script says.                                                       *)

\* How one invocation of extractQuestionsAction may settle: the request
\* rejects with an error, or a response arrives
ExtractOutcomes ==
    { [ error |-> e, response |-> EmptyResponse ] : e \in RemoteErrors }
      \cup { [ error |-> NoError, response |-> r ] : r \in ExtractionResponses }

ExtractScripts ==
    [ retries : {DefaultRetries},
      outcomes : [ 1..(DefaultRetries + 1) -> ExtractOutcomes ] ]

InitExtract ==
    /\ script \in ExtractScripts
    /\ doc = NoDoc
    /\ apiKey \in BOOLEAN
    /\ call = ApiFetch("extractQuestions", apiKey, DefaultRetries, DefaultDelay)
    /\ pc = "extractQuestions"
    /\ processing = Analyzing
    /\ rawText = <<"1", ".", " ", "W", "h", "y", "?", "LF">>
    /\ context = [ InitContext EXCEPT !.subject = <<"P", "h", "y", "s", "i", "c", "s">> ]
    /\ hasKey = TRUE
    /\ keyChecked = TRUE
    /\ results = <<>>
    /\ downloadUrl = NoUrl
    /\ liveUrls = {}
    /\ blocked = FALSE
    /\ closureUrl = NoUrl
    /\ questions = <<>>
    /\ solved = <<>>
    /\ diagrams = <<>>
    /\ caught = NoError
    /\ caughtAt = "IDLE"

extractRest ==
    << keyChecked, apiKey, context, results, downloadUrl, liveUrls, blocked, script, doc >>

\* apiFetch resumes from await extractQuestionsAction(text)
ExtractActionSettles ==
    /\ pc = "extractQuestions"
    /\ call.phase \in {"call", "nokey"}
    /\ LET o == script.outcomes[call.calls]
       IN  call' = IF call.phase = "nokey" THEN OnReject(call, MsgApiKeyMissing)
                   ELSE IF o.error # NoError THEN OnReject(call, o.error)
                   ELSE OnResolve(call, o.response.text)
    /\ UNCHANGED << extractRest, hasKey, processing, pc, closureUrl, rawText, questions,
                    solved, diagrams, caught, caughtAt >>

\* apiFetch resumes from its backoff timer
ExtractTimerFires ==
    /\ pc = "extractQuestions"
    /\ call.phase = "backoff"
    /\ call' = OnTimer(call, apiKey)
    /\ UNCHANGED << extractRest, hasKey, processing, pc, closureUrl, rawText, questions,
                    solved, diagrams, caught, caughtAt >>

\* handleProcess resumes from await gemini.extractQuestions(rawText): in
\* its catch block for an error of the client or an empty list, else on
\* its way to solving
ExtractClientSettles ==
    /\ pc = "extractQuestions"
    /\ Settled(call)
    /\ IF call.phase = "thrown"
       THEN Catch(call.error)
       ELSE LET qs == ExtractQuestionsResult(script.outcomes[call.calls].response)
            IN  IF NoQuestions(qs)
                THEN Catch(MsgNoQuestions)
                ELSE /\ questions' = qs
                     /\ rawText' = <<>>
                     /\ processing' = Generating
                     /\ call' = ApiFetch("solveQuestions", apiKey, DefaultRetries, DefaultDelay)
                     /\ pc' = "solveQuestions"
                     /\ UNCHANGED << hasKey, caught, caughtAt, closureUrl, solved, diagrams >>
    /\ UNCHANGED extractRest

NextExtract == ExtractActionSettles \/ ExtractTimerFires \/ ExtractClientSettles

SpecExtract == InitExtract /\ [][NextExtract]_vars

-----------------------------------------------------------------------------
(* The text stage on its own: handleProcess from its await of              *)
(* pdfProcessor.extractText(file) to the next one, for a document of a few *)
(* pages.                                                                  *)

SeqsUpTo(S, n) == UNION { [ 1..k -> S ] : k \in 0..n }

\* The str of a text item: a blank or a letter
TextItems == { <<" ">>, <<"a">> }

\* The documents: up to MaxPages pages of up to MaxItems text items each
Documents == SeqsUpTo(SeqsUpTo(TextItems, MaxItems), MaxPages)

\* One upload: whether pdf.js loads, what it rejects with while reading
\* (NoError if nothing), and the pages of the file
Uploads ==
    [ libLoaded : BOOLEAN, fault : PdfReadFaults \cup {NoError}, pages : Documents ]

InitText ==
    /\ script \in Uploads
    /\ doc = NoDoc
    /\ apiKey \in BOOLEAN
    /\ pc = "extractText"
    /\ processing = Extracting
    /\ context = [ InitContext EXCEPT !.subject = <<"P", "h", "y", "s", "i", "c", "s">> ]
    /\ hasKey = TRUE
    /\ keyChecked = TRUE
    /\ results = <<>>
    /\ downloadUrl = NoUrl
    /\ liveUrls = {}
    /\ blocked = FALSE
    /\ closureUrl = NoUrl
    /\ rawText = <<>>
    /\ questions = <<>>
    /\ solved = <<>>
    /\ call = NoFrame
    /\ diagrams = <<>>
    /\ caught = NoError
    /\ caughtAt = "IDLE"

\* handleProcess resumes from await pdfProcessor.extractText(file)
TextSettles ==
    /\ pc = "extractText"
    /\ LET r == ExtractText(script.libLoaded, script.fault, script.pages)
       IN  IF r.error # NoError
           THEN Catch(r.error)
           ELSE /\ rawText' = r.text
                /\ processing' = Analyzing
                /\ call' = ApiFetch("extractQuestions", apiKey, DefaultRetries, DefaultDelay)
                /\ pc' = "extractQuestions"
                /\ UNCHANGED << hasKey, caught, caughtAt, closureUrl, questions,
                                solved, diagrams >>
    /\ UNCHANGED << keyChecked, apiKey, context, results, downloadUrl, liveUrls,
                    blocked, script, doc >>

NextText == TextSettles

SpecText == InitText /\ [][NextText]_vars

-----------------------------------------------------------------------------
(* The assembly of the answer document on its own: generateAnswerPdf for a *)
(* list of a few items.  The list is read as the loop reads it: the number *)
(* of wrapped lines of a question when its box is sized, the lines of an   *)
(* answer one by one, the reference URLs when the answer has been written. *)
(* Lengths are in millimetres.                                             *)

\* doc.internal.pageSize.getHeight() of an a4 portrait page
PageHeight == 297

\* const margin = 20
Margin == 20

\* A block as drawn: what it is, the cursor y it was drawn with, the page
Block(kind, d) == [ kind |-> kind, y |-> d.y, page |-> d.pages ]

NoFooter(d) == d

\* addFooter: the footer text of the current page, with pageNumber
AddFooter(d) ==
    [ d EXCEPT !.footers = Append(@, [ page |-> d.pages, number |-> d.pageNumber ]) ]

NoBreak(d, heightNeeded) == d

\* checkPage(heightNeeded)
CheckPage(d, heightNeeded) ==
    IF d.y + heightNeeded > PageHeight - Margin - 15
    THEN [ AddFooter(d) EXCEPT !.pages = @ + 1, !.pageNumber = @ + 1, !.y = Margin ]
    ELSE d

\* new jsPDF(...), let y = 20, let pageNumber = 1
NewDoc ==
    [ pos |-> "header", y |-> 20, pageNumber |-> 1, pages |-> 1, footers |-> << >>,
      item |-> 0, line |-> 0, drawn |-> {} ]

InitPdf ==
    /\ doc = NewDoc
    /\ script = << >>
    /\ apiKey = TRUE
    /\ pc = "generateAnswerPdf"
    /\ processing = CreatingPdf
    /\ context = [ InitContext EXCEPT !.subject = <<"P", "h", "y", "s", "i", "c", "s">> ]
    /\ hasKey = TRUE
    /\ keyChecked = TRUE
    /\ results = <<>>
    /\ downloadUrl = NoUrl
    /\ liveUrls = {}
    /\ blocked = FALSE
    /\ closureUrl = NoUrl
    /\ rawText = <<>>
    /\ questions = <<>>
    /\ solved = <<>>
    /\ call = NoFrame
    /\ diagrams = <<>>
    /\ caught = NoError
    /\ caughtAt = "IDLE"

pdfRest ==
    << hasKey, keyChecked, apiKey, context, processing, results, downloadUrl,
       liveUrls, blocked, pc, closureUrl, rawText, questions, solved, call,
       diagrams, caught, caughtAt, script >>

\* The header section: the title, the date
Header ==
    /\ doc # NoDoc
    /\ doc.pos = "header"
    /\ LET d == [ doc EXCEPT !.y = @ + 12 ]
       IN  doc' = [ d EXCEPT !.drawn = { Block("title", doc), Block("date", d) },
                             !.y = @ + 15, !.pos = "item" ]
    /\ UNCHANGED pdfRest

\* The question box of the next item, its text wrapped to qLines lines
QuestionBox(qLines) ==
    /\ doc # NoDoc
    /\ doc.pos = "item"
    /\ doc.item < MaxPdfItems
    /\ LET qBoxHeight == (qLines * 6) + 8
           d == CheckPage(doc, qBoxHeight + 10)
       IN  doc' = [ d EXCEPT !.drawn = { Block("question", d) },
                             !.y = @ + qBoxHeight + 6,
                             !.item = @ + 1, !.line = 0, !.pos = "solution" ]
    /\ UNCHANGED pdfRest

\* The heading of the solution body
SolutionBody ==
    /\ doc # NoDoc
    /\ doc.pos = "solution"
    /\ LET d == CheckPage(doc, 10)
       IN  doc' = [ d EXCEPT !.drawn = { Block("heading", d) }, !.y = @ + 8,
                             !.pos = "answer" ]
    /\ UNCHANGED pdfRest

\* One more line of the answer (splitTextToSize gives at least one line)
AnswerLine ==
    /\ doc # NoDoc
    /\ doc.pos = "answer"
    /\ doc.line < MaxALines
    /\ LET d == CheckPage(doc, 7)
       IN  doc' = [ d EXCEPT !.drawn = { Block("answer", d) }, !.y = @ + 6,
                             !.line = @ + 1 ]
    /\ UNCHANGED pdfRest

\* The resources of an item with the given reference URLs
StudyLinks(d0, docUrl, videoUrl) ==
    IF Truthy(docUrl) \/ Truthy(videoUrl)
    THEN LET d1 == CheckPage([ d0 EXCEPT !.y = @ + 6 ], 15)
             d2 == [ d1 EXCEPT !.y = @ + 6 ]
             d3 == IF Truthy(docUrl) THEN [ d2 EXCEPT !.y = @ + 5 ] ELSE d2
             d4 == IF Truthy(videoUrl) THEN [ d3 EXCEPT !.y = @ + 5 ] ELSE d3
         IN  [ d4 EXCEPT !.drawn =
                 { Block("links", d1) }
                 \cup (IF Truthy(docUrl) THEN { Block("reference", d2) } ELSE {})
                 \cup (IF Truthy(videoUrl) THEN { Block("reference", d3) } ELSE {}) ]
    ELSE [ d0 EXCEPT !.drawn = {} ]

\* The answer has no more lines: the resources, the separator line
Resources(docUrl, videoUrl) ==
    /\ doc # NoDoc
    /\ doc.pos = "answer"
    /\ doc.line >= 1
    /\ LET d == StudyLinks(doc, docUrl, videoUrl)
       IN  doc' = [ d EXCEPT !.y = @ + 12, !.pos = "item" ]
    /\ UNCHANGED pdfRest

\* The list has no more items: the last footer, doc.output('blob')
Output ==
    /\ doc # NoDoc
    /\ doc.pos = "item"
    /\ doc' = [ AddFooter(doc) EXCEPT !.drawn = {}, !.pos = "output" ]
    /\ UNCHANGED pdfRest

ReferenceUrls == { Undefined, "https://www.geeksforgeeks.org/" }

NextPdf ==
    \/ Header
    \/ \E qLines \in 1..MaxQLines : QuestionBox(qLines)
    \/ SolutionBody
    \/ AnswerLine
    \/ \E docUrl \in ReferenceUrls, videoUrl \in ReferenceUrls : Resources(docUrl, videoUrl)
    \/ Output

SpecPdf == InitPdf /\ [][NextPdf]_vars

-----------------------------------------------------------------------------
(* Properties of the workflow.                                             *)

Forward ==
    { <<"IDLE", "EXTRACTING">>, <<"EXTRACTING", "ANALYZING">>,
      <<"ANALYZING", "GENERATING">>, <<"GENERATING", "GENERATING_DIAGRAMS">>,
      <<"GENERATING_DIAGRAMS", "CREATING_PDF">>, <<"CREATING_PDF", "COMPLETED">> }

\* Each status is shown only while the run is where the status says: the
\* operation of every earlier stage has settled, that of no later stage has
\* started.
StageDone ==
    /\ processing.status \in ProcessStatus \ {"CONFIGURING", "UPLOADING"}
    /\ processing.status \in {"IDLE", "ERROR", "COMPLETED"} =>
         pc = "none" /\ call = NoFrame /\ diagrams = <<>>
    /\ processing.status = "EXTRACTING" =>
         pc = "extractText" /\ rawText = <<>> /\ call = NoFrame /\ questions = <<>>
    /\ processing.status = "ANALYZING" =>
         /\ pc = "apiFetch" /\ call.op = "extractQuestions" /\ rawText # <<>>
         /\ questions = <<>> /\ solved = <<>>
    /\ processing.status = "GENERATING" =>
         /\ pc = "apiFetch" /\ call.op = "solveQuestions" /\ Len(questions) > 0
         /\ solved = <<>> /\ diagrams = <<>>
    /\ processing.status = "GENERATING_DIAGRAMS" =>
         /\ pc = "diagrams" /\ call = NoFrame /\ Len(diagrams) = Len(solved)
         /\ results = <<>>
    /\ processing.status = "CREATING_PDF" =>
         /\ pc = "generateAnswerPdf"
         /\ \A i \in 1..Len(diagrams) : diagrams[i].phase \in {"none", "returned"}
         /\ Len(results) = Len(solved)
         /\ downloadUrl = NoUrl

\* A change of status follows the forward order, fails, or is a reset.
StageStep ==
    processing'.status # processing.status =>
        \/ << processing.status, processing'.status >> \in Forward
        \/ processing.status \in InFlight /\ processing'.status = "ERROR"
        \/ processing.status \in {"ERROR", "COMPLETED"} /\ processing'.status = "IDLE"

\* C1: within a run the status visits IDLE, EXTRACTING, ANALYZING, GENERATING,
\* GENERATING_DIAGRAMS, CREATING_PDF, COMPLETED in this order only, each
\* stage entered once the operation of the stage before has settled, none
\* skipped or entered again; every other change of status is to ERROR or,
\* by reset, to IDLE.
C1_StageOrder == []StageDone /\ [][StageStep]_vars

\* a run went through every stage and produced results
C1_Witness == processing.status = "COMPLETED" /\ Len(results) > 0

\* empty or whitespace only
Blank(s) == \A i \in 1..Len(s) : s[i] \in Whitespace

\* C2: in IDLE with a blank subject (empty or whitespace only) no step, a
\* file selection included, changes ProcessingState, starts the extraction
\* or a remote call, or changes results or downloadUrl.
C2_BlankSubjectBlocks ==
    [][ (processing.status = "IDLE" /\ Blank(context.subject) /\ context' = context) =>
            UNCHANGED << processing, results, downloadUrl, liveUrls, pc, rawText,
                         questions, call, diagrams >> ]_vars

\* a file was selected with a subject of two spaces and refused
C2_Witness ==
    blocked /\ processing.status = "IDLE" /\ context.subject = <<" ", " ">>

\* C3: from ERROR the status changes only to IDLE, by reset, which clears
\* results and downloadUrl; no run starts and no stage is entered.
C3_ErrorOnlyResets ==
    [][ processing.status = "ERROR" =>
          /\ \/ processing' = processing
             \/ processing' = Idle /\ results' = <<>> /\ downloadUrl' = NoUrl
          /\ pc' = "none" /\ call' = NoFrame /\ diagrams' = <<>> ]_vars

\* the error panel with its reset button is shown after the assembly failed
C3_Witness == processing.status = "ERROR" /\ hasKey /\ caughtAt = "CREATING_PDF"

\* C4: with every awaited promise settling and every timer firing, a run
\* that is in an in-flight stage reaches COMPLETED or ERROR.
C4_RunTerminates ==
    (processing.status \in InFlight) ~> (processing.status \in {"COMPLETED", "ERROR"})

\* a run waits for the backoff timer of a diagram request
C4_Witness ==
    processing.status = "GENERATING_DIAGRAMS"
      /\ \E i \in 1..Len(diagrams) : diagrams[i].phase = "backoff"

\* C5 as stated: ERROR shows progress 0 and the message of the exception
\* as it is.
C5_MessageVerbatim ==
    processing.status = "ERROR" =>
        processing.progress = 0 /\ processing.message = caught

\* C5: an exception caught in a run, and nothing else, puts the workflow in
\* ERROR with progress 0; the message shown is the message of the exception
\* when that is not empty, and 'An internal engine error occurred.' when it
\* is.
C5_MessageOrFallback ==
    /\ processing.status = "ERROR" <=> caught # NoError
    /\ processing.status = "ERROR" =>
         /\ processing.progress = 0
         /\ caughtAt \in InFlight
         /\ processing.message =
              (IF caught = "" THEN "An internal engine error occurred." ELSE caught)

\* an exception without a message was caught
C5_Witness ==
    processing.status = "ERROR" /\ caught = ""
      /\ processing.message = "An internal engine error occurred."

\* A diagram request of the run has failed.
DiagramFailed ==
    \E i \in 1..Len(diagrams) : diagrams[i].op = "generateDiagram" /\ diagrams[i].error # NoError
                                  /\ diagrams[i].phase = "returned"

C7_NoQuestionsStopsRun ==
    /\ processing.status \in {"GENERATING", "GENERATING_DIAGRAMS", "CREATING_PDF"} =>
         Len(questions) > 0
    /\ call.op = "solveQuestions" => Len(questions) > 0
    /\ (processing.status = "ERROR" /\ caught = MsgNoQuestions) =>
         /\ caughtAt = "ANALYZING"
         /\ results = <<>> /\ downloadUrl = NoUrl /\ liveUrls = {}
         /\ call = NoFrame

\* the extraction returned an empty list
C7_Witness ==
    processing.status = "ERROR" /\ caught = MsgNoQuestions /\ caughtAt = "ANALYZING"

\* C8: progress never decreases from the start of a run to COMPLETED; it
\* goes down only to 0, on the change to ERROR or on reset.
C8_ProgressMonotone ==
    [][ processing'.progress < processing.progress =>
          /\ processing'.progress = 0
          /\ \/ processing'.status = "ERROR"
             \/ processing'.status = "IDLE" /\ processing.status \in {"ERROR", "COMPLETED"} ]_vars

\* a run climbed to 100
C8_Witness == processing.progress = 100 /\ processing.status = "COMPLETED"

-----------------------------------------------------------------------------
(* Properties of the retry wrapper.                                        *)

\* the message of a rate-limit or quota failure
QuotaSignature(o) ==
    o # Resolves /\ (Includes(o, "429") \/ Includes(o, "RESOURCE_EXHAUSTED"))

AlwaysQuota == \A k \in DOMAIN script.outcomes : QuotaSignature(script.outcomes[k])

\* C9: for an action that fails with a quota error at every invocation the
\* wrapper invokes it at most retries + 1 times, and ends only by throwing
\* the quota error of invocation retries + 1.
C9_RetryBound ==
    AlwaysQuota =>
        /\ call.calls <= script.retries + 1
        /\ call.phase = "backoff" => call.calls <= script.retries
        /\ call.phase \notin {"call", "backoff"} =>
             /\ call.phase = "thrown"
             /\ call.calls = script.retries + 1
             /\ call.error = script.outcomes[call.calls]

\* the default budget of 2 is spent: three invocations, then the error
C9_Witness ==
    /\ AlwaysQuota /\ script.retries = 2
    /\ call.phase = "thrown" /\ call.calls = 3 /\ Len(call.waits) = 2

-----------------------------------------------------------------------------
(* Properties of the diagram stage.                                        *)

\* C11: generateTechnicalDiagram settles its caller's promise by returning,
\* never by throwing: with the image when the invocation that ended the call
\* produced one, and with nothing (undefined) for a missing key, a quota
\* error that outlasts the budget, any other error and a response without
\* an inline image.
C11_ClientNeverRaises ==
    pc = "settled" =>
        /\ diagrams[1].phase = "returned"
        /\ diagrams[1].value =
             (IF apiKey /\ script.outcomes[call.calls] = DataUrl THEN DataUrl ELSE Undefined)
        /\ ~apiKey => call.calls = 1 /\ call.error = MsgApiKeyMissing

\* three quota errors in a row: the client returned undefined
C11_Witness ==
    /\ pc = "settled" /\ call.phase = "thrown" /\ call.calls = 3
    /\ diagrams[1].phase = "returned" /\ diagrams[1].value = Undefined

\* item q carries a diagram prompt
HasPrompt(q) == q.diagramPrompt # Undefined /\ q.diagramPrompt # ""

\* the requests of the diagram stage are those of the items with a prompt
OneRequestPerPrompt ==
    pc \in {"diagrams", "generateAnswerPdf"} =>
        /\ Len(diagrams) = Len(solved)
        /\ \A i \in 1..Len(solved) :
             IF HasPrompt(solved[i]) THEN diagrams[i].op = "generateDiagram"
             ELSE diagrams[i] = NoFrame
        /\ Cardinality({ i \in 1..Len(diagrams) : diagrams[i] # NoFrame })
             = Cardinality({ i \in 1..Len(solved) : HasPrompt(solved[i]) })

\* the image of an item is what its own request returned
OwnImage ==
    processing.status = "CREATING_PDF" =>
        \A i \in 1..Len(results) :
            results[i].diagramDataUrl =
                (IF HasPrompt(solved[i]) THEN diagrams[i].value ELSE Undefined)

\* while the stage waits, a step touches the request of one item only
OneRequestPerStep ==
    (pc = "diagrams" /\ pc' = "diagrams") =>
        \A i, j \in 1..Len(diagrams) :
            (i # j /\ diagrams'[i] # diagrams[i]) => diagrams'[j] = diagrams[j]

\* C12: the diagram stage issues one request for each solved item that
\* carries a diagramPrompt and none for the others; in whatever order the
\* requests complete, a step of one request leaves the others as they are
\* and each item gets the image of its own request, so a failed request
\* changes the diagramDataUrl of no other item.
C12_FanOut == []OneRequestPerPrompt /\ []OwnImage /\ [][OneRequestPerStep]_vars

\* one request failed, another item has its image
C12_Witness ==
    /\ processing.status = "CREATING_PDF"
    /\ \E i, j \in 1..Len(results) :
         /\ diagrams[i].error # NoError /\ results[i].diagramDataUrl = Undefined
         /\ results[j].diagramDataUrl = DataUrl

\* the request of frame f is still under way
Outstanding(f) == f.phase \in {"call", "nokey", "backoff"}

NoneOutstanding == \A i \in 1..Len(diagrams) : ~Outstanding(diagrams[i])

\* C13: CREATING_PDF is entered from GENERATING_DIAGRAMS with every diagram
\* request settled, no request is outstanding during the assembly or at
\* COMPLETED, and with every promise settling and every timer firing the
\* diagram stage is always followed by CREATING_PDF.
C13_AssemblyAfterDiagrams ==
    /\ [](processing.status \in {"CREATING_PDF", "COMPLETED"} => NoneOutstanding)
    /\ [][ (processing'.status = "CREATING_PDF" /\ processing.status # "CREATING_PDF") =>
             /\ processing.status = "GENERATING_DIAGRAMS"
             /\ NoneOutstanding
             /\ diagrams' = diagrams ]_vars
    /\ (processing.status = "GENERATING_DIAGRAMS") ~> (processing.status = "CREATING_PDF")

\* the assembly runs after two requests returned
C13_Witness ==
    /\ processing.status = "CREATING_PDF"
    /\ Cardinality({ i \in 1..Len(diagrams) : diagrams[i].phase = "returned" }) >= 2

-----------------------------------------------------------------------------
(* Properties of the items.                                                *)

\* C14 as stated: after solving, the solved list has the items of the
\* question list, all of them and in their order, each with an answer that
\* is not empty.
C14_SolveKeepsItems ==
    pc \in {"diagrams", "generateAnswerPdf"} =>
        /\ Len(solved) = Len(questions)
        /\ \A i \in 1..Len(questions) :
             /\ solved[i].number = questions[i].number
             /\ solved[i].question = questions[i].question
             /\ solved[i].answer \notin { Undefined, "" }

\* the solved list is the fallback of a payload that failed to parse
ParseFallback ==
    /\ pc \in {"diagrams", "generateAnswerPdf"}
    /\ \E i \in 1..Len(solved) : solved[i].answer = "Error formatting the response."

\* C15 as stated: after a payload that failed to parse the run is past
\* solving, not in ERROR, with one item per question that keeps number and
\* question and carries a placeholder answer and the two search-query
\* reference URLs.
C15_FallbackWithSearchUrls ==
    ParseFallback =>
        /\ processing.status \in {"GENERATING_DIAGRAMS", "CREATING_PDF"}
        /\ Len(solved) = Len(questions)
        /\ \A i \in 1..Len(solved) :
             /\ solved[i].number = questions[i].number
             /\ solved[i].question = questions[i].question
             /\ solved[i].answer = "Error formatting the response."
             /\ solved[i].referenceDocUrl # Undefined
             /\ solved[i].referenceVideoUrl # Undefined

-----------------------------------------------------------------------------
(* Properties of the extraction stage.                                     *)

\* what handleProcess finds when its await of extractQuestions resumes
ExtractionSettled ==
    LET o == script.outcomes[call.calls]
    IN  /\ ~apiKey =>
             /\ call.phase = "thrown"
             /\ caught' = MsgApiKeyMissing /\ processing'.status = "ERROR"
        /\ (apiKey /\ o.error # NoError) =>
             /\ call.phase = "thrown"
             /\ caught' = o.error /\ processing'.status = "ERROR"
        /\ (apiKey /\ o.error = NoError /\ o.response.text \in {"", "not json"}) =>
             /\ call.phase = "returned"
             /\ caught' = MsgNoQuestions /\ processing'.status = "ERROR"
        /\ processing'.status \in {"ERROR", "GENERATING"}
        /\ processing'.status = "GENERATING" =>
             /\ apiKey /\ o.error = NoError /\ o.response.text = "json"
             /\ questions' = o.response.json /\ Len(questions') > 0

\* C16: for an empty response and for a payload that fails to parse the
\* extraction client returns (an empty list) and does not throw, and the
\* run ends in ERROR with the no-questions message; a missing key and a
\* failed request reach the run as that error; the run goes on to
\* GENERATING only with a parsed list that is not empty.
C16_ExtractionEmptyOrError ==
    [][ (pc = "extractQuestions" /\ pc' # "extractQuestions") => ExtractionSettled ]_vars

\* the payload of the first response failed to parse
C16_Witness ==
    /\ apiKey /\ script.outcomes[1].error = NoError
    /\ script.outcomes[1].response.text = "not json"
    /\ processing.status = "ERROR" /\ caught = MsgNoQuestions

-----------------------------------------------------------------------------
(* Properties of the items across the stages.                              *)

OptionalFields ==
    { "answer", "diagramPrompt", "diagramDataUrl", "referenceDocUrl", "referenceVideoUrl" }

\* item r has every populated field of item q, unchanged
Keeps(q, r) ==
    /\ r.number = q.number
    /\ r.question = q.question
    /\ \A f \in OptionalFields : q[f] # Undefined => r[f] = q[f]

\* C17 as stated: the item at a position keeps, through solving and
\* diagramming, every field it had: the solved item those of the extracted
\* one, the result those of the solved one.
C17_FieldsMonotone ==
    /\ pc \in {"diagrams", "generateAnswerPdf"} =>
         \A i \in 1..Len(questions) : i <= Len(solved) => Keeps(questions[i], solved[i])
    /\ processing.status = "CREATING_PDF" =>
         \A i \in 1..Len(solved) : Keeps(solved[i], results[i])

-----------------------------------------------------------------------------
(* Properties of the download URL.                                         *)

\* C18: the object URLs created and not revoked are the current downloadUrl
\* and nothing else: at most one is live, and a URL that is no longer the
\* downloadUrl, after a later run or a reset, has been revoked.
C18_OneLiveUrl ==
    /\ liveUrls = (IF downloadUrl = NoUrl THEN {} ELSE {downloadUrl})
    /\ Cardinality(liveUrls) <= 1
    /\ pc # "none" => downloadUrl = NoUrl /\ closureUrl = NoUrl

\* a document was published
C18_Witness ==
    processing.status = "COMPLETED" /\ downloadUrl # NoUrl /\ liveUrls = {downloadUrl}

-----------------------------------------------------------------------------
(* Properties of the form.                                                 *)

\* the catalog list of field f has specialization sf
InCatalog(f, sf) ==
    /\ f \in DOMAIN ACADEMIC_STRUCTURE
    /\ \E i \in 1..Len(ACADEMIC_STRUCTURE[f]) : ACADEMIC_STRUCTURE[f][i] = sf

\* C19: subField is always an entry of the catalog list of field; a step
\* that changes field sets subField to the first entry of the list of the
\* new field and leaves subject as it is.
C19_SubFieldInCatalog ==
    /\ []InCatalog(context.field, context.subField)
    /\ [][ context'.field # context.field =>
             /\ context'.subField = ACADEMIC_STRUCTURE[context'.field][1]
             /\ context'.subject = context.subject ]_vars

\* the second field with its second specialization, the subject typed before
C19_Witness ==
    /\ context.field = FIELDS[2]
    /\ context.subField = ACADEMIC_STRUCTURE[FIELDS[2]][2]
    /\ context.subject # <<>>

-----------------------------------------------------------------------------
(* Properties of the text stage.                                           *)

\* no text item of the document has a character that is not white space
TextLess(pages) ==
    \A p \in 1..Len(pages) : \A i \in 1..Len(pages[p]) :
        \A c \in 1..Len(pages[p][i]) : pages[p][i][c] \in Whitespace

\* C20: extractText of a readable document throws the empty-document error
\* exactly when the document has no text but white space; the run then
\* goes from EXTRACTING to ERROR with progress 0, without results and
\* without a remote call; with any other readable document it goes on to
\* ANALYZING with the text of the pages.
C20_EmptyDocument ==
    pc # "extractText" =>
        /\ caught = MsgEmptyPdf <=>
             (script.libLoaded /\ script.fault = NoError /\ TextLess(script.pages))
        /\ caught = MsgEmptyPdf =>
             /\ processing = [ status |-> "ERROR", progress |-> 0, message |-> MsgEmptyPdf ]
             /\ caughtAt = "EXTRACTING"
             /\ results = <<>> /\ call = NoFrame /\ diagrams = <<>>
        /\ processing.status = "ANALYZING" =>
             /\ script.libLoaded /\ script.fault = NoError /\ ~TextLess(script.pages)
             /\ Len(rawText) > 0

\* two pages of blanks ended the run
C20_Witness ==
    /\ processing.status = "ERROR" /\ caught = MsgEmptyPdf
    /\ Len(script.pages) = 2 /\ script.pages[1] # <<>> /\ script.pages[2] # <<>>

-----------------------------------------------------------------------------
(* Properties of the credential gate.                                      *)

\* C21 as stated: a run that failed for want of an API key has raised the
\* gate: hasKey is false, the connect-key screen is shown in place of the
\* ERROR panel.
C21_MissingKeyRaisesGate ==
    (processing.status = "ERROR" /\ caught = MsgApiKeyMissing) => ~hasKey


-----------------------------------------------------------------------------
(* Properties of the assembled document.                                   *)

\* The blocks of an item that the page check guards
Guarded == { "question", "heading", "answer", "links" }

\* The blocks of an item with text of the item
TextBlocks == { "question", "answer", "links", "reference" }

\* The cursor below which the page check starts a new page
OverflowAt == PageHeight - Margin - 15

\* The fewest lines of an answer that no single page holds
LinesPerPage == ((OverflowAt - Margin) \div 6) + 1

\* The height a block drawn by a step asked the page check for, and the
\* cursor the check saw
HeightNeeded(b) ==
    CASE b.kind = "question" -> (doc'.y - b.y - 6) + 10
      [] b.kind = "heading"  -> 10
      [] b.kind = "answer"   -> 7
      [] b.kind = "links"    -> 15

CursorBefore(b) == IF b.kind = "links" THEN doc.y + 6 ELSE doc.y

BreaksWhenOverflowing ==
    (doc # NoDoc /\ doc' # doc) =>
        \A b \in doc'.drawn : b.kind \in Guarded =>
            IF CursorBefore(b) + HeightNeeded(b) > OverflowAt
            THEN b.page = doc.pages + 1 /\ b.y = Margin
            ELSE b.page = doc.pages /\ b.y = CursorBefore(b)

DrawnAboveMargin ==
    doc # NoDoc =>
        /\ \A b \in doc.drawn : b.kind \in TextBlocks => b.y <= PageHeight - Margin
        /\ doc.line >= LinesPerPage => doc.pages > 1

\* C22: every question box, answer line and reference line is drawn with the
\* cursor no lower than the page height less the bottom margin; a block the
\* page check finds overflowing is drawn at the top margin of a new page and
\* any other at the cursor on the current page; an answer of more lines than
\* a page holds gives a document of more than one page.
C22_Pagination == []DrawnAboveMargin /\ [][BreaksWhenOverflowing]_vars

\* An answer too long for one page, its last line drawn on a later page
C22_Witness ==
    /\ doc # NoDoc
    /\ doc.line >= LinesPerPage
    /\ \E b \in doc.drawn : b.kind = "answer" /\ b.page > 1

\* The pages whose footer has been written: all of them once the document is
\* output, all but the current one before
Closed == IF doc.pos = "output" THEN doc.pages ELSE doc.pages - 1

\* C26: every closed page has exactly one footer and the footer of the k-th
\* page carries the number k; the current page has none until the document is
\* output; pageNumber is the number of pages created so far.
C26_OneFooterPerPage ==
    doc # NoDoc =>
        /\ doc.pageNumber = doc.pages
        /\ Len(doc.footers) = Closed
        /\ \A k \in 1..Len(doc.footers) :
               doc.footers[k] = [ page |-> k, number |-> k ]

\* A document of several pages has been output
C26_Witness == doc # NoDoc /\ doc.pos = "output" /\ doc.pages >= 3

-----------------------------------------------------------------------------
(* Properties of the retry wrapper.                                        *)

\* C23: the wait before the k-th retry is the base delay times 2^(k-1); the
\* budget left is the budget the call was given less the retries made; a call
\* that has returned holds the value of the invocation that resolved and no
\* error of an earlier one.
C23_ExponentialBackoff ==
    call.op = "action" =>
        /\ \A k \in 1..Len(call.waits) : call.waits[k] = DefaultDelay * (2 ^ (k - 1))
        /\ call.retries = script.retries - (call.calls - 1)
        /\ call.retries >= 0
        /\ call.phase \in { "call", "returned", "thrown" } => Len(call.waits) = call.calls - 1
        /\ call.phase = "returned" => call.value = DataUrl /\ call.error = NoError

\* A call that succeeded on its third retry, after waits of 2000, 4000 and
\* 8000 ms
C23_Witness ==
    /\ call.op = "action"
    /\ call.phase = "returned"
    /\ call.waits = << 2000, 4000, 8000 >>

-----------------------------------------------------------------------------
(* Properties of the results list.                                         *)

\* The fields of an item the diagram stage does not write
KeptFields ==
    { "number", "question", "answer", "diagramPrompt", "referenceDocUrl",
      "referenceVideoUrl" }

\* C24: the list the diagram stage hands on has the length and the order of
\* the solved list: its i-th item is the i-th solved item in every field
\* other than diagramDataUrl, in whatever order the requests completed.
C24_PositionalMerge ==
    processing.status = "CREATING_PDF" =>
        /\ Len(results) = Len(solved)
        /\ \A i \in 1..Len(results) :
               \A f \in KeptFields : results[i][f] = solved[i][f]

\* Two items with a prompt each: the first has its image, the request of the
\* second failed
C24_Witness ==
    /\ processing.status = "CREATING_PDF"
    /\ Len(results) = 2
    /\ Truthy(results[1].diagramPrompt) /\ results[1].diagramDataUrl = DataUrl
    /\ Truthy(results[2].diagramPrompt) /\ results[2].diagramDataUrl = Undefined

-----------------------------------------------------------------------------
(* Properties of reset and of the start of a run.                          *)

\* A step that brings the app back to IDLE
BackToIdle == processing.status # "IDLE" /\ processing'.status = "IDLE"

\* A file selection that starts a run
RunStarts == OnFileSelected /\ processing'.status = "EXTRACTING"

ResetRestores ==
    BackToIdle =>
        /\ processing.status \in { "COMPLETED", "ERROR" }
        /\ processing' = [ status |-> "IDLE", progress |-> 0, message |-> "System Ready" ]
        /\ results' = <<>>
        /\ downloadUrl' = NoUrl
        /\ context' = context
        /\ hasKey' /\ pc' = "none" /\ ~Blank(context'.subject)

\* C25: the app comes back to IDLE only from COMPLETED or ERROR, and then
\* with progress 0, the message 'System Ready', no results, no download URL
\* and the AcademicContext it had; in IDLE with a key and a subject that is
\* not blank, as after every reset, a file selection starts a run.
C25_Reset ==
    /\ [][ResetRestores]_vars
    /\ [](processing.status = "IDLE" /\ hasKey /\ ~Blank(context.subject)
             => ENABLED RunStarts)

\* A completed run with results and a download URL, where reset can act
C25_Witness ==
    /\ processing.status = "COMPLETED"
    /\ results # <<>>
    /\ downloadUrl # NoUrl
    /\ ENABLED (Next /\ BackToIdle /\ results' = <<>>)

\* A run is suspended at one of its awaits
Running == pc # "none"

StartsFromIdle ==
    (~Running /\ Running') =>
        processing.status = "IDLE" /\ processing'.status = "EXTRACTING"

WrittenByTheRun ==
    (Running /\ processing' # processing) => (pc' # pc \/ call' # call)

\* C27: a run starts only in IDLE; a run is suspended exactly while the
\* status is one of the in-flight stages, in which the upload form is not
\* offered, so no second run starts beside it; and while a run is suspended
\* ProcessingState changes only in a step of that run.
C27_SingleRun ==
    /\ [][StartsFromIdle]_vars
    /\ [](Running <=> processing.status \in InFlight)
    /\ [](Running => ~ENABLED RunStarts)
    /\ [][WrittenByTheRun]_vars

\* A run waits for its diagrams while the form is withheld
C27_Witness ==
    /\ pc = "diagrams"
    /\ processing.status = "GENERATING_DIAGRAMS"
    /\ hasKey /\ ~Blank(context.subject)
    /\ ~ENABLED RunStarts

\* C28: downloadUrl is set exactly in COMPLETED, and the URL it holds is
\* one that was created and has not been revoked.
C28_UrlIffCompleted ==
    /\ downloadUrl # NoUrl <=> processing.status = "COMPLETED"
    /\ downloadUrl # NoUrl => downloadUrl \in liveUrls

\* The run has ended and its document is offered for download
C28_Witness ==
    /\ processing.status = "COMPLETED"
    /\ ~Running
    /\ downloadUrl \in liveUrls

\* The statuses in which no list has been published yet
BeforeAssembly == { "IDLE", "EXTRACTING", "ANALYZING", "GENERATING", "GENERATING_DIAGRAMS" }

ResultsWrittenOnce ==
    results' # results =>
        \/ /\ processing.status = "GENERATING_DIAGRAMS"
           /\ processing'.status = "CREATING_PDF"
           /\ NoneOutstanding
           /\ results = <<>>
        \/ processing'.status = "IDLE" /\ results' = <<>>

\* C29: results is empty in IDLE and in every stage up to the diagram stage;
\* a run writes it once, in the step from GENERATING_DIAGRAMS to CREATING_PDF
\* with every diagram request settled, and only a reset empties it again;
\* during the assembly and in COMPLETED it is the list generateAnswerPdf was
\* called with.
C29_ResultsLifecycle ==
    /\ [](processing.status \in BeforeAssembly => results = <<>>)
    /\ [][ResultsWrittenOnce]_vars
    /\ [](processing.status \in { "CREATING_PDF", "COMPLETED" } =>
             doc # NoDoc /\ doc.questions = results)

\* A completed run of two questions
C29_Witness ==
    /\ processing.status = "COMPLETED"
    /\ Len(results) = 2
    /\ doc # NoDoc /\ doc.questions = results

-----------------------------------------------------------------------------
(* Properties of the calls handleProcess makes.                            *)

\* C30: while handleProcess waits for extractQuestions the text it passed has
\* a character that is not white space, and while it waits for solveQuestions
\* the list it passed has an item: the argument checks of the actions
\* (empty text, empty list) never fail for a call made by handleProcess.
C30_CallPreconditions ==
    /\ call.op = "extractQuestions" => rawText # <<>> /\ ~Blank(rawText)
    /\ call.op = "solveQuestions" => questions # <<>> /\ Len(questions) >= 1

\* extractQuestions is invoked again after a quota error, with the same text
C30_Witness ==
    /\ call.op = "extractQuestions"
    /\ call.phase = "call" /\ call.calls = 2
    /\ ~Blank(rawText)
====
